---------------------------- MODULE Spec2Model ----------------------------
(***************************************************************************)
(* A model of src/control/aggregate_results.py: the plausibility validator *)
(* validate_fio_data, the transcript parser parse_results_sheet and the    *)
(* aggregation loop of aggregate_results and its main; and of              *)
(* src/control/visualize_results.py: validate_data_for_visualization and   *)
(* the output phase of its main.                                           *)
(*                                                                         *)
(* Text is modelled by TLA+ strings, character by character, so that the   *)
(* regular expressions and the substring tests of the source are computed  *)
(* as Python computes them.  Measurement values are the integers: the      *)
(* inputs of the model are digit strings (optionally followed by ".0"),    *)
(* on which Python's float arithmetic is exact.  The two Cyrillic markers  *)
(* of the source that a TLA+ string cannot hold are transliterated.        *)
(***************************************************************************)
EXTENDS Integers, Sequences, FiniteSets, TLC

VARIABLES
    call,             \* one call of validate_fio_data: its arguments and result
    results_dir,      \* the argument of aggregate_results
    listing,          \* the directory's files, in the order rglob yields them
    pc,               \* position in aggregate_results
    all_result_files, \* line 120
    fileIdx,          \* index of the next file of the loop at line 133
    iterations_data,  \* line 131, in insertion order
    trace,            \* per file visited: what parse_results_sheet did
    aggregated,       \* the value aggregate_results returns
    argv,             \* main: sys.argv[1:], the directories to aggregate
    argIdx,           \* main: index of the directory of the loop at line 306
    written,          \* the files written so far, in order
    snapshots,        \* main: for each directory on the disk, the value
                      \* aggregate_results returns for it
    report_files,     \* visualize main: what find_aggregated_reports found
    heap,             \* visualize: the dict objects, by identity
    datasets,         \* visualize main, line 517: label -> dict object
    valid_datasets,   \* visualize main, line 532
    filtered_tests,   \* visualize main, line 532
    dir_exists        \* whether the directory visualization_output exists

vars == <<call, results_dir, listing, pc, all_result_files, fileIdx,
          iterations_data, trace, aggregated, argv, argIdx, written,
          snapshots, report_files, heap, datasets, valid_datasets,
          filtered_tests, dir_exists>>

mainVars == <<argv, argIdx, written, snapshots>>

visVars == <<report_files, heap, datasets, valid_datasets, filtered_tests,
             dir_exists>>

pipelineVars == <<results_dir, listing, pc, all_result_files, fileIdx,
                  iterations_data, trace, aggregated, mainVars, visVars>>

---------------------------------------------------------------------------
(* Characters and strings *)

Ch(s, i) == SubSeq(s, i, i)

IsDigit(c) == c \in {"0", "1", "2", "3", "4", "5", "6", "7", "8", "9"}

\* Python's \s and str.isspace, over the characters the inputs use
IsSpace(c) == c \in {" ", "\t", "\n"}

\* the character class [\d.]
IsNumCh(c) == IsDigit(c) \/ c = "."

\* needle in hay, starting exactly at position i
OccursAt(hay, needle, i) ==
    /\ i >= 1
    /\ i + Len(needle) - 1 <= Len(hay)
    /\ SubSeq(hay, i, i + Len(needle) - 1) = needle

\* Python's `needle in hay`
Contains(hay, needle) ==
    \E i \in 1..(Len(hay) - Len(needle) + 1) : OccursAt(hay, needle, i)

\* the character classes of the patterns: \s, \S, \d, [\d.], = and the
\* dot, which is any character but a line break
InClass(c, class) ==
    CASE class = "space"    -> IsSpace(c)
      [] class = "nonspace" -> ~IsSpace(c)
      [] class = "digit"    -> IsDigit(c)
      [] class = "num"      -> IsNumCh(c)
      [] class = "eq"       -> c = "="
      [] class = "line"     -> c # "\n"

\* first position at or after i whose character is not of the class
\* (Len(s) + 1 when the run reaches the end of the text): where a greedy
\* run of the class that starts at i ends
RECURSIVE RunEnd(_, _, _)
RunEnd(s, i, class) ==
    IF i > Len(s) \/ ~InClass(Ch(s, i), class) THEN i
    ELSE RunEnd(s, i + 1, class)

\* the element of a one-element set.  The({e(x) : x \in {v}}) is e(v) with v
\* evaluated once, however often e uses it.
The(S) == CHOOSE x \in S : TRUE

\* the least element of a non-empty set of positions: where a leftmost
\* search, or a lazy run, stops
Least(S) == The({CHOOSE x \in T : \A y \in T : x <= y : T \in {S}})

\* the greatest element: where a greedy run that gives back stops
Greatest(S) == The({CHOOSE x \in T : \A y \in T : x >= y : T \in {S}})

\* str.strip()
strip(s) ==
    LET nonsp == {i \in 1..Len(s) : ~IsSpace(Ch(s, i))}
    IN  IF nonsp = {} THEN ""
        ELSE SubSeq(s, CHOOSE i \in nonsp : \A j \in nonsp : i <= j,
                       CHOOSE i \in nonsp : \A j \in nonsp : i >= j)

\* s.split() is empty
NoWords(s) == \A i \in 1..Len(s) : IsSpace(Ch(s, i))

\* s.split()[0], for a string with at least one word
FirstWord(s) ==
    LET a == RunEnd(s, 1, "space")
    IN  SubSeq(s, a, RunEnd(s, a, "nonspace") - 1)

DigitVal(c) ==
    CASE c = "0" -> 0 [] c = "1" -> 1 [] c = "2" -> 2 [] c = "3" -> 3
      [] c = "4" -> 4 [] c = "5" -> 5 [] c = "6" -> 6 [] c = "7" -> 7
      [] c = "8" -> 8 [] c = "9" -> 9

\* int(s) for a string of digits
RECURSIVE int(_)
int(s) ==
    IF Len(s) = 0 THEN 0
    ELSE 10 * int(SubSeq(s, 1, Len(s) - 1)) + DigitVal(Ch(s, Len(s)))

\* float(s) raises ValueError: s, a string over [\d.], has two dots or no digit
FloatRaises(s) ==
    \/ Cardinality({i \in 1..Len(s) : Ch(s, i) = "."}) > 1
    \/ \A i \in 1..Len(s) : Ch(s, i) = "."

\* float(s) for a string it accepts.  The model's inputs have no non-zero
\* fractional digit, so the value is the integer part.
float(s) ==
    LET dots == {i \in 1..Len(s) : Ch(s, i) = "."}
        d    == IF dots = {} THEN Len(s) + 1 ELSE CHOOSE i \in dots : TRUE
    IN  CASE \A i \in (d + 1)..Len(s) : Ch(s, i) = "0" ->
             int(SubSeq(s, 1, d - 1))

---------------------------------------------------------------------------
(* validate_fio_data *)

\* the block size in bytes instead of KiB
BlockSizeBytes == 4 * 1024

BlockSize == 4

\* a threshold one decimal order too high
MaxIopsTenfold == 10 * 100000

MaxIops == 100000

MaxBandwidth == 10000

DefaultMaxLatency == 300

write_exceptions == {"Write", "RW (Write)"}

expected_bandwidth(iops) == iops * BlockSize

\* min_allowed and max_allowed, in tenths (0.8, 0.5 and 1.2 times the
\* expected bandwidth, times ten)
min_allowed10(test_name, iops) ==
    IF \E exc \in write_exceptions : Contains(test_name, exc)
    THEN expected_bandwidth(iops) * 5
    ELSE expected_bandwidth(iops) * 8

max_allowed10(iops) == expected_bandwidth(iops) * 12

\* the condition of line 28
anomalous(test_name, iops, bandwidth) ==
    \/ iops > MaxIops
    \/ bandwidth > MaxBandwidth
    \/ /\ bandwidth > 0
       /\ iops > 0
       /\ ~(/\ min_allowed10(test_name, iops) <= bandwidth * 10
            /\ bandwidth * 10 <= max_allowed10(iops))

max_allowed_latency ==
    [t \in {"Sequential Read", "Sequential Write", "Random Read",
            "Random Write", "Mixed RW"} |->
        CASE t = "Sequential Read"  -> 50
          [] t = "Sequential Write" -> 100
          [] t = "Random Read"      -> 100
          [] t = "Random Write"     -> 200
          [] t = "Mixed RW"         -> 200]

\* line 44, for a label with at least one word or the marker
test_type(test_name) ==
    IF Contains(test_name, "Mixed RW") THEN "Mixed RW" ELSE FirstWord(test_name)

\* line 45
max_latency(test_name) ==
    IF test_type(test_name) \in DOMAIN max_allowed_latency
    THEN max_allowed_latency[test_type(test_name)]
    ELSE DefaultMaxLatency

\* The result: "True", "False", or "IndexError" when line 44 indexes the
\* empty list test_name.split().
validate_fio_data(test_name, iops, bandwidth, latency) ==
    IF anomalous(test_name, iops, bandwidth) THEN "False"
    ELSE IF ~Contains(test_name, "Mixed RW") /\ NoWords(test_name) THEN "IndexError"
    ELSE IF latency > max_latency(test_name) THEN "False"
    ELSE "True"

---------------------------------------------------------------------------
(* parse_results_sheet: the pattern of line 62 *)

\* fio_pattern from the end of the label on, the label ending just before
\* position p: \s+([\d.]+)\s+([\d.]+)\s+([\d.]+).  Each run is greedy and a
\* shorter run never matches (the character after it would be of the run's
\* own class), so the runs are the maximal ones.
FioTail(s, p) ==
    LET a1 == RunEnd(s, p, "space")
        b1 == RunEnd(s, a1, "num")
        a2 == RunEnd(s, b1, "space")
        b2 == RunEnd(s, a2, "num")
        a3 == RunEnd(s, b2, "space")
        b3 == RunEnd(s, a3, "num")
    IN  [ok |-> a1 > p /\ b1 > a1 /\ a2 > b1 /\ b2 > a2 /\ a3 > b2 /\ b3 > a3,
         g3 |-> SubSeq(s, a1, b1 - 1),
         g4 |-> SubSeq(s, a2, b2 - 1),
         g5 |-> SubSeq(s, a3, b3 - 1),
         end |-> b3]

\* (.+?) starting at q: the least p > q such that the label s[q..p-1] holds
\* no line break and the rest of the pattern matches at p; 0 when there is
\* none.
FioLabelEnd(s, q) ==
    LET ps == {p \in (q + 1)..RunEnd(s, q, "line") :
                 IsSpace(Ch(s, p)) /\ FioTail(s, p).ok}
    IN  The({IF P = {} THEN 0 ELSE Least(P) : P \in {ps}})

\* the match whose label is s[q..p-1]
FioMatchWith(s, i, q, p) ==
    [ok |-> TRUE, start |-> i, g1 |-> SubSeq(s, i, RunEnd(s, i, "digit") - 1),
     g2 |-> SubSeq(s, q, p - 1), g3 |-> FioTail(s, p).g3,
     g4 |-> FioTail(s, p).g4, g5 |-> FioTail(s, p).g5,
     end |-> FioTail(s, p).end]

\* (\d+)\s+ at i, then the label: \d+ takes the whole digit run; \s+ is
\* greedy and gives characters back one by one until a label is found, so
\* the label starts at the greatest q that allows a match.
FioMatchAt(s, i) ==
    IF ~IsDigit(Ch(s, i)) THEN [ok |-> FALSE]
    ELSE LET e1 == RunEnd(s, i, "digit")
             qs == {q \in (e1 + 1)..RunEnd(s, e1, "space") : FioLabelEnd(s, q) # 0}
         IN  The({IF Q = {} THEN [ok |-> FALSE]
                  ELSE The({FioMatchWith(s, i, q, FioLabelEnd(s, q)) :
                               q \in {Greatest(Q)}}) : Q \in {qs}})

\* re.finditer(fio_pattern, content) from position pos on: the leftmost
\* match, then the matches after its end
RECURSIVE finditer(_, _)
finditer(s, pos) ==
    LET starts == {i \in pos..Len(s) : FioMatchAt(s, i).ok}
    IN  The({IF I = {} THEN <<>>
             ELSE The({<<m>> \o finditer(s, m.end) :
                          m \in {FioMatchAt(s, Least(I))}}) : I \in {starts}})

---------------------------------------------------------------------------
(* parse_results_sheet: the loop body of lines 64-85 *)

\* the two Cyrillic markers of lines 76 and 78, transliterated
ReadMarkerRu == "Chtenie"

WriteMarkerRu == "Zapis"

\* lines 73-79
unique_key(test_name) ==
    IF Contains(test_name, "Mixed RW")
    THEN IF Contains(test_name, "Read") \/ Contains(test_name, ReadMarkerRu)
         THEN "Mixed RW (Read)"
         ELSE IF Contains(test_name, "Write") \/ Contains(test_name, WriteMarkerRu)
              THEN "Mixed RW (Write)"
              ELSE test_name
    ELSE test_name

\* d[key] = value on a dict
DictSet(d, key, value) ==
    [k \in (DOMAIN d) \cup {key} |-> IF k = key THEN value ELSE d[k]]

EmptyDict == [k \in {} |-> 0]

\* what the loop body does with one match: the verdict of the row
\* ("ValueError" when a float() of lines 66-68 raises, before the validator
\* is called) and the key the row is stored under when it is accepted
FioRow(m) ==
    LET test_name == strip(m.g2)
        raises    == FloatRaises(m.g3) \/ FloatRaises(m.g4) \/ FloatRaises(m.g5)
        verdict   == IF raises THEN "ValueError"
                     ELSE validate_fio_data(test_name, float(m.g3),
                                            float(m.g4), float(m.g5))
    IN  [start     |-> m.start,
         test_num  |-> int(m.g1),
         test_name |-> test_name,
         verdict   |-> verdict,
         key       |-> IF verdict = "True" THEN unique_key(test_name) ELSE "",
         metrics   |-> IF raises THEN EmptyDict
                       ELSE [IOPS |-> float(m.g3), Bandwidth |-> float(m.g4),
                             Latency |-> float(m.g5)]]

\* the loop of line 63 over the matches ms, from the k-th on: the rows
\* handled (the loop ends at the first row that raises) and results['fio']
RECURSIVE FioLoop(_, _, _, _)
FioLoop(ms, k, rows, fio) ==
    IF k > Len(ms) THEN [rows |-> rows, fio |-> fio, raised |-> FALSE]
    ELSE The({IF r.verdict \in {"ValueError", "IndexError"}
              THEN [rows |-> Append(rows, r), fio |-> fio, raised |-> TRUE]
              ELSE The({FioLoop(ms, k + 1, rows2, fio2) :
                           rows2 \in {Append(rows, r)},
                           fio2 \in {IF r.verdict = "True"
                                     THEN DictSet(fio, r.key, r.metrics)
                                     ELSE fio}}) :
              r \in {FioRow(ms[k])}})

---------------------------------------------------------------------------
(* parse_results_sheet: pgbench, lines 87-102 *)

PgHeader == "TPS"

PgTitle == "(Transactions Per Second):"

\* the Cyrillic literals of lines 89 and 100, transliterated
PgLatencyMarker == "Srednyaya zaderzhka:"

PgCountMarker == "Obrabotano tranzaktsiy:"

PgSectionMarker == "Rezultaty pgbench"

\* <count marker>\s*(\d+) at position k
PgCountAt(s, k) ==
    LET c == RunEnd(s, k + Len(PgCountMarker), "space")
        d == RunEnd(s, c, "digit")
    IN  IF OccursAt(s, PgCountMarker, k) /\ d > c
        THEN [ok |-> TRUE, g3 |-> SubSeq(s, c, d - 1)]
        ELSE [ok |-> FALSE]

\* .*?<count marker>\s*(\d+) from position k on: the first marker that
\* digits follow
PgFindCount(s, k) ==
    The({IF K = {} THEN [ok |-> FALSE]
         ELSE The({PgCountAt(s, x) : x \in {Least(K)}}) :
         K \in {{x \in k..Len(s) : PgCountAt(s, x).ok}}})

\* <latency marker>\s*([\d.]+) at position j, and the rest after it
PgLatencyAt(s, j) ==
    LET c == RunEnd(s, j + Len(PgLatencyMarker), "space")
        d == RunEnd(s, c, "num")
    IN  IF OccursAt(s, PgLatencyMarker, j) /\ d > c /\ PgFindCount(s, d).ok
        THEN [ok |-> TRUE, g2 |-> SubSeq(s, c, d - 1),
              g3 |-> PgFindCount(s, d).g3]
        ELSE [ok |-> FALSE]

\* .*?<latency marker>\s*([\d.]+) and the rest, from position j on
PgFindLatency(s, j) ==
    The({IF J = {} THEN [ok |-> FALSE]
         ELSE The({PgLatencyAt(s, x) : x \in {Least(J)}}) :
         J \in {{x \in j..Len(s) : PgLatencyAt(s, x).ok}}})

\* the pattern of line 89 at position i
PgMatchAt(s, i) ==
    LET a == RunEnd(s, i + Len(PgHeader), "space")
        c == RunEnd(s, a + Len(PgTitle), "space")
        d == RunEnd(s, c, "num")
    IN  IF /\ OccursAt(s, PgHeader, i)
           /\ OccursAt(s, PgTitle, a)
           /\ d > c
           /\ PgFindLatency(s, d).ok
        THEN [ok |-> TRUE, g1 |-> SubSeq(s, c, d - 1),
              g2 |-> PgFindLatency(s, d).g2, g3 |-> PgFindLatency(s, d).g3]
        ELSE [ok |-> FALSE]

\* re.search of line 88: the leftmost match
pgbench_match(s) ==
    The({IF I = {} THEN [ok |-> FALSE]
         ELSE The({PgMatchAt(s, i) : i \in {Least(I)}}) :
         I \in {{i \in 1..Len(s) : PgMatchAt(s, i).ok}}})

\* .*?(===+|$) from position p on: where the match ends.  $ matches at the
\* end of the text and before a line break that ends it.
PgSectionEnd(s, p) ==
    The({IF OccursAt(s, "===", x) THEN RunEnd(s, x, "eq") ELSE x :
         x \in {Least({k \in p..(Len(s) + 1) :
                         \/ OccursAt(s, "===", k)
                         \/ k = Len(s) + 1
                         \/ (k = Len(s) /\ Ch(s, k) = "\n")})}})

\* re.search of line 100: group(0), or "" for no match
pgbench_section_match(s) ==
    The({IF I = {} THEN ""
         ELSE The({SubSeq(s, i, PgSectionEnd(s, RunEnd(s, i, "eq")
                                                  + Len(PgSectionMarker)) - 1) :
                      i \in {Least(I)}}) :
         I \in {{i \in 1..Len(s) :
                   /\ RunEnd(s, i, "eq") - i >= 3
                   /\ OccursAt(s, PgSectionMarker, RunEnd(s, i, "eq"))}}})

\* lines 92-102: results['pgbench'] and results['pgbench_section'], or the
\* ValueError of a float() of lines 94-95
Pgbench(content) ==
    The({IF ~m.ok
         THEN [raised |-> FALSE, pgbench |-> EmptyDict, pgbench_section |-> ""]
         ELSE IF FloatRaises(m.g1) \/ FloatRaises(m.g2)
         THEN [raised |-> TRUE, pgbench |-> EmptyDict, pgbench_section |-> ""]
         ELSE [raised |-> FALSE,
               pgbench |-> [TPS |-> float(m.g1), Latency_Avg |-> float(m.g2),
                            Transactions |-> int(m.g3), samples |-> 1],
               pgbench_section |-> pgbench_section_match(content)] :
         m \in {pgbench_match(content)}})

---------------------------------------------------------------------------
(* parse_results_sheet as a whole *)

None == [none |-> TRUE]

\* One run of parse_results_sheet on a file [name, content, readable]: the
\* number of matches of the pattern, the rows its loop handled and the value
\* it returns.  open() raising, a
\* float() raising and the validator raising all end in the except clause
\* of line 105, which returns None.
ParseRun(file) ==
    IF ~file.readable THEN [matched |-> 0, rows |-> <<>>, result |-> None]
    ELSE The({The({[matched |-> Len(ms),
                    rows    |-> loop.rows,
                    result  |-> IF loop.raised \/ pg.raised THEN None
                                ELSE [fio |-> loop.fio, pgbench |-> pg.pgbench,
                                      pgbench_section |-> pg.pgbench_section]] :
                   loop \in {FioLoop(ms, 1, <<>>, EmptyDict)},
                   pg \in {Pgbench(file.content)}}) :
              ms \in {finditer(file.content, 1)}})

parse_results_sheet(file) == ParseRun(file).result

---------------------------------------------------------------------------
(* The validator on its own: every call over bounded argument sets *)

Labels ==
    {"Sequential Read", "Sequential Write", "Random Read", "Random Write",
     "Mixed RW", "Mixed RW (Read)", "Mixed RW (Write)", "Unknown Test",
     "Rewrite check", ""}

Rates == {0, 1, 5, 1000, 2500, 2501, 100000, 100001, 200000}

Bandwidths ==
    {0, 4, 20, 1999, 2000, 3199, 3200, 4000, 4800, 4801, 10000, 10004}
        \cup {400000, 400004, 800000}

Latencies == {0, 50, 51, 100, 101, 200, 201, 300, 301}

\* the visualizer is not running
VisIdle ==
    /\ report_files = <<>>
    /\ heap = <<>>
    /\ datasets = <<>>
    /\ valid_datasets = <<>>
    /\ filtered_tests = <<>>
    /\ dir_exists = FALSE

NoCall == [test_name |-> "", iops |-> 0, bandwidth |-> 0, latency |-> 0,
           result |-> "none"]

Idle ==
    /\ results_dir = ""
    /\ listing = <<>>
    /\ pc = "idle"
    /\ all_result_files = <<>>
    /\ fileIdx = 0
    /\ iterations_data = <<>>
    /\ trace = <<>>
    /\ aggregated = None
    /\ argv = <<>>
    /\ argIdx = 0
    /\ written = <<>>
    /\ snapshots = <<>>
    /\ VisIdle

InitValidate ==
    /\ call \in [test_name : Labels, iops : Rates, bandwidth : Bandwidths,
                 latency : Latencies, result : {"pending"}]
    /\ Idle

Validate ==
    /\ call.result = "pending"
    /\ call' = [call EXCEPT !.result =
                   validate_fio_data(call.test_name, call.iops,
                                     call.bandwidth, call.latency)]
    /\ UNCHANGED pipelineVars

NextValidate == Validate

SpecValidate == InitValidate /\ [][NextValidate]_vars

Returned == call.result \notin {"pending", "none"}

---------------------------------------------------------------------------
(* Exact arithmetic for statistics.mean and statistics.stdev *)

RECURSIVE GCD(_, _)
GCD(a, b) == IF b = 0 THEN a ELSE GCD(b, a % b)

\* the fraction n/d, d > 0, n >= 0, in lowest terms
Frac(n, d) == [num |-> n \div GCD(n, d), den |-> d \div GCD(n, d)]

Zero == Frac(0, 1)

RECURSIVE Sum(_)
Sum(xs) == IF Len(xs) = 0 THEN 0 ELSE Head(xs) + Sum(Tail(xs))

RECURSIVE SumSq(_)
SumSq(xs) == IF Len(xs) = 0 THEN 0 ELSE Head(xs) * Head(xs) + SumSq(Tail(xs))

\* statistics.mean of a non-empty list
mean(xs) == Frac(Sum(xs), Len(xs))

\* the square of statistics.stdev of a list of two or more values: the
\* sample variance, denominator n - 1.  The model holds a standard
\* deviation by its square, which is exact and is zero exactly when the
\* deviation is.
stdev(xs) ==
    Frac(Len(xs) * SumSq(xs) - Sum(xs) * Sum(xs), Len(xs) * (Len(xs) - 1))

\* the guard of lines 175-179 and 200 left out: the deviation of a single
\* sample is undefined, 0/0
stdev_unguarded(xs, samples) ==
    IF samples > 1 THEN stdev(xs) ELSE [num |-> 0, den |-> 0]

\* `stdev(xs) if samples > 1 else 0` of lines 175-179 and 200
stdev_or_0(xs, samples) == IF samples > 1 THEN stdev(xs) ELSE Zero

---------------------------------------------------------------------------
(* aggregate_results *)

\* rglob('results_sheet_*.txt') on a file name
GlobMatches(name) ==
    /\ Len(name) >= Len("results_sheet_") + Len(".txt")
    /\ OccursAt(name, "results_sheet_", 1)
    /\ OccursAt(name, ".txt", Len(name) - Len(".txt") + 1)

\* re.search(r'iter(\d+)', name): the number, or -1 for no match
iter_match(name) ==
    The({IF I = {} THEN -1
         ELSE The({int(SubSeq(name, a, RunEnd(name, a, "digit") - 1)) :
                      a \in {Least(I) + Len("iter")}}) :
         I \in {{i \in 1..Len(name) :
                   /\ OccursAt(name, "iter", i)
                   /\ RunEnd(name, i + Len("iter"), "digit") > i + Len("iter")}}})

\* re.search(r'_(\d+)vms_', path), and the default 1
vms_match(path) ==
    The({IF I = {} THEN 1
         ELSE The({int(SubSeq(path, a, RunEnd(path, a, "digit") - 1)) :
                      a \in {Least(I) + 1}}) :
         I \in {{i \in 1..Len(path) :
                   /\ Ch(path, i) = "_"
                   /\ RunEnd(path, i + 1, "digit") > i + 1
                   /\ OccursAt(path, "vms_", RunEnd(path, i + 1, "digit"))}}})

get_vm_count_from_path(file_path) == vms_match(file_path)

\* lines 142-144 done wrongly: the result replaces what the iteration held
AddParsedLastWins(data, iter_num, parsed) ==
    IF \E k \in 1..Len(data) : data[k].iter = iter_num
    THEN [k \in 1..Len(data) |->
             IF data[k].iter = iter_num
             THEN [data[k] EXCEPT !.results = <<parsed>>]
             ELSE data[k]]
    ELSE Append(data, [iter |-> iter_num, results |-> <<parsed>>])

\* iterations_data is a dict in insertion order: a sequence of
\* [iter, results] with distinct iter.  Lines 142-144.
AddParsed(data, iter_num, parsed) ==
    IF \E k \in 1..Len(data) : data[k].iter = iter_num
    THEN [k \in 1..Len(data) |->
             IF data[k].iter = iter_num
             THEN [data[k] EXCEPT !.results = Append(@, parsed)]
             ELSE data[k]]
    ELSE Append(data, [iter |-> iter_num, results |-> <<parsed>>])

\* lines 135-144 with the test of line 141 after line 143: a file whose
\* parse failed still enters its iteration number
LoopBodyKeepsIteration(data, iter_num, parsed) ==
    IF iter_num = -1 THEN data
    ELSE IF parsed # None THEN AddParsed(data, iter_num, parsed)
    ELSE IF \E k \in 1..Len(data) : data[k].iter = iter_num THEN data
    ELSE Append(data, [iter |-> iter_num, results |-> <<>>])

\* lines 135-144: what one pass of the loop makes of iterations_data, given
\* the iteration number of the file name (-1 for none) and the value
\* parse_results_sheet returned
LoopBody(data, iter_num, parsed) ==
    IF iter_num = -1 \/ parsed = None THEN data
    ELSE AddParsed(data, iter_num, parsed)

\* lines 131-144: iterations_data after the loop has visited files named
\* visits[k].name whose parse returned visits[k].result, in that order
RECURSIVE LoopOver(_)
LoopOver(visits) ==
    IF Len(visits) = 0 THEN <<>>
    ELSE LoopBody(LoopOver(SubSeq(visits, 1, Len(visits) - 1)),
                  iter_match(visits[Len(visits)].name),
                  visits[Len(visits)].result)

\* the nested loops `for iter_results in iterations_data.values(): for
\* vm_result in iter_results`, as one sequence
RECURSIVE AllResults(_)
AllResults(data) ==
    IF Len(data) = 0 THEN <<>> ELSE Head(data).results \o AllResults(Tail(data))

\* lines 156-160
all_fio_tests(data) ==
    UNION {DOMAIN AllResults(data)[k].fio : k \in 1..Len(AllResults(data))}

\* lines 163-169 without the test of line 166: a result that lacks the test
\* adds a zero
RECURSIVE FioMetricsZeroFilled(_, _, _)
FioMetricsZeroFilled(rs, test_name, metric) ==
    IF Len(rs) = 0 THEN <<>>
    ELSE (IF test_name \in DOMAIN Head(rs).fio
          THEN <<Head(rs).fio[test_name][metric]>> ELSE <<0>>)
         \o FioMetricsZeroFilled(Tail(rs), test_name, metric)

\* lines 163-169: the values of one metric of one test, in visiting order
RECURSIVE FioMetrics(_, _, _)
FioMetrics(rs, test_name, metric) ==
    IF Len(rs) = 0 THEN <<>>
    ELSE (IF test_name \in DOMAIN Head(rs).fio
          THEN <<Head(rs).fio[test_name][metric]>> ELSE <<>>)
         \o FioMetrics(Tail(rs), test_name, metric)

\* lines 171-181
AggregateFio(data) ==
    LET rs == AllResults(data)
    IN  [test_name \in {t \in all_fio_tests(data) :
                          Len(FioMetrics(rs, t, "IOPS")) > 0} |->
          LET iops    == FioMetrics(rs, test_name, "IOPS")
              bw      == FioMetrics(rs, test_name, "Bandwidth")
              lat     == FioMetrics(rs, test_name, "Latency")
              samples == Len(iops)
          IN  [IOPS_mean       |-> mean(iops),
               IOPS_stdev      |-> stdev_or_0(iops, samples),
               Bandwidth_mean  |-> mean(bw),
               Bandwidth_stdev |-> stdev_or_0(bw, samples),
               Latency_mean    |-> mean(lat),
               Latency_stdev   |-> stdev_or_0(lat, samples),
               samples         |-> samples]]

\* lines 187-194 without the test of line 189: a result without a pgbench
\* measurement adds a zero
RECURSIVE PgMetricsZeroFilled(_, _)
PgMetricsZeroFilled(rs, field) ==
    IF Len(rs) = 0 THEN <<>>
    ELSE (IF DOMAIN Head(rs).pgbench # {}
          THEN <<Head(rs).pgbench[field]>> ELSE <<0>>)
         \o PgMetricsZeroFilled(Tail(rs), field)

\* lines 187-194: the values of one pgbench field over the results that
\* hold a pgbench measurement
RECURSIVE PgMetrics(_, _)
PgMetrics(rs, field) ==
    IF Len(rs) = 0 THEN <<>>
    ELSE (IF DOMAIN Head(rs).pgbench # {}
          THEN <<Head(rs).pgbench[field]>> ELSE <<>>)
         \o PgMetrics(Tail(rs), field)

\* lines 184-204
AggregatePgbench(data) ==
    LET tps     == PgMetrics(AllResults(data), "TPS")
        lat     == PgMetrics(AllResults(data), "Latency_Avg")
        samples == Len(tps)
    IN  IF Len(tps) > 0
        THEN [TPS_mean          |-> mean(tps),
              TPS_stdev         |-> stdev_or_0(tps, samples),
              Latency_Avg_mean  |-> IF Len(lat) > 0 THEN mean(lat) ELSE Zero,
              Latency_Avg_stdev |-> IF Len(lat) > 0 THEN stdev_or_0(lat, samples)
                                    ELSE Zero,
              samples           |-> samples]
        ELSE EmptyDict

\* sorted(iterations_data.keys()), line 155
Iterations(data) ==
    SortSeq([k \in 1..Len(data) |-> data[k].iter], LAMBDA a, b : a < b)

\* lines 150-206: the snapshot
Snapshot(dir, data) ==
    [fio        |-> AggregateFio(data),
     pgbench    |-> AggregatePgbench(data),
     iterations |-> Iterations(data),
     num_vms    |-> get_vm_count_from_path(dir)]

\* lines 122-206 without the test of lines 146-148: a snapshot even when
\* no file was parsed
ReturnOfUnchecked(dir, visits) ==
    The({IF Len(vs) = 0 THEN None ELSE Snapshot(dir, data) :
         vs \in {visits}, data \in {The({LoopOver(v) : v \in {visits}})}})

\* lines 122-148 and 206: what aggregate_results returns after its loop
\* visited the given files
ReturnOf(dir, visits) ==
    The({IF Len(vs) = 0 \/ Len(data) = 0 THEN None ELSE Snapshot(dir, data) :
         vs \in {visits}, data \in {The({LoopOver(v) : v \in {visits}})}})

\* aggregate_results as a function of the directory and its listing
aggregate_results(dir, files) ==
    The({ReturnOf(dir, visits) :
         visits \in {[k \in 1..Len(SelectSeq(files,
                                             LAMBDA f : GlobMatches(f.name))) |->
                        The({[name   |-> file.name,
                              result |-> IF iter_match(file.name) = -1 THEN None
                                         ELSE parse_results_sheet(file)] :
                             file \in {SelectSeq(files,
                                          LAMBDA f : GlobMatches(f.name))[k]}})]}})

---------------------------------------------------------------------------
(* The files a results directory may hold, and the behaviours of           *)
(* aggregate_results on a directory of at most MaxFiles of them            *)

MaxFiles == 2

Disk == <<
    [name |-> "results_sheet_vm1_iter1.txt",
     content |-> "1 Sequential Read 1200 4800 1\n2 Sequential Write 900 3600 1.0\n",
     readable |-> TRUE],
    [name |-> "results_sheet_vm2_iter1.txt",
     content |-> "3 Random Read 5000 0 2\n===Rezultaty pgbench===\nTPS (Transactions Per Second): 180\nSrednyaya zaderzhka: 4.0\nObrabotano tranzaktsiy: 9600\n",
     readable |-> TRUE],
    [name |-> "results_sheet_vm1_iter2.txt",
     content |-> "3 Random Read 5200 0 2\n1 Sequential Read 1000 4000 2\n",
     readable |-> TRUE],
    [name |-> "results_sheet_vm2_iter2.txt",
     content |-> "3 Random Read 200000 800000 2\n2 Sequential Write 900 3600 1\n",
     readable |-> TRUE],
    [name |-> "results_sheet_vm1_iter3.txt",
     content |-> "5 Mixed RW (Read) 700 2800 3\n5 Mixed RW (Write) 300 1200 4\n",
     readable |-> TRUE],
    [name |-> "results_sheet_vm2_iter3.txt",
     content |-> "5 Mixed RW 700 2800 3\n5 Mixed RW 300 1200 4\n",
     readable |-> TRUE],
    [name |-> "results_sheet_vm3_iter3.txt",
     content |-> "5 Mixed RW 700 2800 3\n  (Write) 300 1200 4\n6 Random Write 400 1600 9\n",
     readable |-> TRUE],
    [name |-> "results_sheet_vm3_iter1.txt",
     content |-> "===Rezultaty fio===\n1 Sequential Read 1200 4800 1\n===Rezultaty pgbench===\n4 clients 25 100 7\nTPS (Transactions Per Second): 150\nSrednyaya zaderzhka: 6\nObrabotano tranzaktsiy: 9000\n",
     readable |-> TRUE],
    [name |-> "results_sheet_vm3_iter2.txt",
     content |-> "2 Sequential Write 900 3600 1\n1 Sequential Read 1.2.3 4800 1\n",
     readable |-> TRUE],
    [name |-> "results_sheet_vm4_iter1.txt",
     content |-> "2 Sequential Write 900 3600 1\n1   5 20 7\n",
     readable |-> TRUE],
    [name |-> "results_sheet_vm4_iter2.txt",
     content |-> "1 Sequential Read 1200 4800 1\n",
     readable |-> FALSE],
    [name |-> "results_sheet_summary.txt",
     content |-> "1 Sequential Read 1200 4800 1\n",
     readable |-> TRUE],
    [name |-> "notes_iter1.txt",
     content |-> "3 Random Read 5000 0 2\n",
     readable |-> TRUE],
    [name |-> "results_sheet_vm5_iter10.txt",
     content |-> "",
     readable |-> TRUE],
    [name |-> "results_sheet_vm4_iter3.txt",
     content |-> "5 Mixed RW 4k (Read) 700 2800 3\n6 Mixed RW 64k (Read) 100 400 9\n",
     readable |-> TRUE],
    [name |-> "results_sheet_vm6_iter1.txt",
     content |-> "3 Random Read 200000 800000 2\n",
     readable |-> TRUE] >>

ResultDirs == {"results/20251218_1619_local_2vms_2iter", "results/run7"}

\* the listings of a directory of n files: its files, all different, in
\* any order
ListingsOfLen(n) ==
    {l \in [1..n -> {Disk[k] : k \in 1..Len(Disk)}] :
        \A i, j \in 1..n : i # j => l[i].name # l[j].name}

Listings == UNION {ListingsOfLen(n) : n \in 0..MaxFiles}

Init ==
    /\ call = NoCall
    /\ results_dir \in ResultDirs
    /\ listing \in Listings
    /\ pc = "rglob"
    /\ all_result_files = <<>>
    /\ fileIdx = 0
    /\ iterations_data = <<>>
    /\ trace = <<>>
    /\ aggregated = None
    /\ argv = <<>>
    /\ argIdx = 0
    /\ written = <<>>
    /\ snapshots = <<>>
    /\ VisIdle

\* lines 119-131
Discover ==
    /\ pc = "rglob"
    /\ all_result_files' = SelectSeq(listing, LAMBDA f : GlobMatches(f.name))
    /\ IF Len(all_result_files') = 0
       THEN pc' = "returned" /\ fileIdx' = fileIdx
       ELSE pc' = "loop" /\ fileIdx' = 1
    /\ UNCHANGED <<call, results_dir, listing, iterations_data, trace, aggregated>>
    /\ UNCHANGED mainVars
    /\ UNCHANGED visVars

\* lines 133-144: one pass of the loop over the files
VisitFile ==
    /\ pc = "loop"
    /\ fileIdx <= Len(all_result_files)
    /\ \E file \in {all_result_files[fileIdx]} :
       \E iter_num \in {iter_match(file.name)} :
          IF iter_num = -1
          THEN /\ trace' = Append(trace, [name |-> file.name,
                                          parsed |-> FALSE, matched |-> 0,
                                          rows |-> <<>>, result |-> None])
               /\ UNCHANGED iterations_data
          ELSE \E run \in {ParseRun(file)} :
               /\ trace' = Append(trace, [name |-> file.name,
                                          parsed |-> TRUE,
                                          matched |-> run.matched,
                                          rows |-> run.rows,
                                          result |-> run.result])
               /\ iterations_data' =
                      LoopBody(iterations_data, iter_num, run.result)
    /\ fileIdx' = fileIdx + 1
    /\ UNCHANGED <<call, results_dir, listing, pc, all_result_files, aggregated>>
    /\ UNCHANGED mainVars
    /\ UNCHANGED visVars

\* lines 146-206
Finish ==
    /\ pc = "loop"
    /\ fileIdx > Len(all_result_files)
    /\ aggregated' = IF Len(iterations_data) = 0 THEN None
                     ELSE Snapshot(results_dir, iterations_data)
    /\ pc' = "returned"
    /\ UNCHANGED <<call, results_dir, listing, all_result_files, fileIdx,
                   iterations_data, trace>>
    /\ UNCHANGED mainVars
    /\ UNCHANGED visVars

Next == Discover \/ VisitFile \/ Finish

Spec == Init /\ [][Next]_vars

---------------------------------------------------------------------------
(* main of aggregate_results.py over the directories of the command line *)

MaxDirs == 2

\* the directories a command line may name
DirPaths ==
    {"results/missing", "results/empty", "results/notes",
     "results/20251218_1619_local_2vms_2iter", "results/run7", "results/run8",
     "results/run9"}

\* os.path.exists of line 307
DirExists(path) == path # "results/missing"

\* what each directory holds: nothing; a file the glob does not match; two
\* transcripts that parse; an unreadable transcript and one without an
\* iteration number; an empty transcript; a transcript whose only row is
\* rejected
DirListing(path) ==
    CASE path = "results/notes" -> <<Disk[13]>>
      [] path = "results/20251218_1619_local_2vms_2iter" -> <<Disk[2], Disk[3]>>
      [] path = "results/run7" -> <<Disk[11], Disk[12]>>
      [] path = "results/run8" -> <<Disk[14]>>
      [] path = "results/run9" -> <<Disk[16]>>
      [] OTHER -> <<>>

\* the command lines: one to MaxDirs directories
ArgvSets == UNION {[1..n -> DirPaths] : n \in 1..MaxDirs}

\* the loop gives the directory up and goes on to the next
MainAbort(idx, n) == n + 1

\* `continue` of lines 309 and 318: the index of the directory the loop
\* takes next, of n
MainContinue(idx, n) == idx + 1

\* os.path.join(results_dir, "aggregated_report") and the suffix of the
\* file, lines 227, 321, 324-326
OutputFile(dir, suffix, data) ==
    [dir |-> dir, path |-> dir \o "/aggregated_report" \o suffix, data |-> data]

InitMain ==
    /\ call = NoCall
    /\ results_dir = ""
    /\ listing = <<>>
    /\ pc = "main_loop"
    /\ all_result_files = <<>>
    /\ fileIdx = 0
    /\ iterations_data = <<>>
    /\ trace = <<>>
    /\ aggregated = None
    /\ argv \in ArgvSets
    /\ argIdx = 1
    /\ written = <<>>
    /\ snapshots = [d \in {p \in DirPaths : DirExists(p)} |->
                       aggregate_results(d, DirListing(d))]
    /\ VisIdle

\* lines 306-309: a directory that does not exist
MainMissing ==
    /\ pc = "main_loop"
    /\ argIdx <= Len(argv)
    /\ ~DirExists(argv[argIdx])
    /\ argIdx' = MainContinue(argIdx, Len(argv))
    /\ UNCHANGED <<call, results_dir, listing, pc, all_result_files, fileIdx,
                   iterations_data, trace, aggregated, argv, written,
                   snapshots>>
    /\ UNCHANGED visVars

\* lines 306-318: the call of aggregate_results, whose value for the
\* directory is snapshots[directory], and the test of its result
MainAggregate ==
    /\ pc = "main_loop"
    /\ argIdx <= Len(argv)
    /\ DirExists(argv[argIdx])
    /\ results_dir' = argv[argIdx]
    /\ listing' = DirListing(argv[argIdx])
    /\ \E result \in {snapshots[argv[argIdx]]} :
          /\ aggregated' = result
          /\ IF result = None
             THEN pc' = "main_loop"
                  /\ argIdx' = MainContinue(argIdx, Len(argv))
             ELSE pc' = "main_debug" /\ argIdx' = argIdx
    /\ UNCHANGED <<call, all_result_files, fileIdx, iterations_data, trace,
                   argv, written, snapshots>>
    /\ UNCHANGED visVars

\* line 321: debug_data_structure, lines 208-230
MainDebug ==
    /\ pc = "main_debug"
    /\ written' = Append(written, OutputFile(results_dir,
                                             "_structure_debug.txt", aggregated))
    /\ pc' = "main_report"
    /\ UNCHANGED <<call, results_dir, listing, all_result_files, fileIdx,
                   iterations_data, trace, aggregated, argv, argIdx, snapshots>>
    /\ UNCHANGED visVars

\* lines 324-325: generate_report, lines 232-289
MainReport ==
    /\ pc = "main_report"
    /\ written' = Append(written, OutputFile(results_dir, ".txt", aggregated))
    /\ pc' = "main_json"
    /\ UNCHANGED <<call, results_dir, listing, all_result_files, fileIdx,
                   iterations_data, trace, aggregated, argv, argIdx, snapshots>>
    /\ UNCHANGED visVars

\* line 326: save_json, lines 291-295, and the next pass of the loop
MainSaveJson ==
    /\ pc = "main_json"
    /\ written' = Append(written, OutputFile(results_dir, ".json", aggregated))
    /\ pc' = "main_loop"
    /\ argIdx' = argIdx + 1
    /\ UNCHANGED <<call, results_dir, listing, all_result_files, fileIdx,
                   iterations_data, trace, aggregated, argv, snapshots>>
    /\ UNCHANGED visVars

\* lines 328-329: the loop is over
MainExit ==
    /\ pc = "main_loop"
    /\ argIdx > Len(argv)
    /\ pc' = "main_exit"
    /\ UNCHANGED <<call, results_dir, listing, all_result_files, fileIdx,
                   iterations_data, trace, aggregated, argv, argIdx, written,
                   snapshots>>
    /\ UNCHANGED visVars

NextMain ==
    \/ MainMissing
    \/ MainAggregate
    \/ MainDebug
    \/ MainReport
    \/ MainSaveJson
    \/ MainExit

SpecMain == InitMain /\ [][NextMain]_vars

\* main is one sequential process: a step that can be taken is taken
FairSpecMain == SpecMain /\ WF_vars(NextMain)

---------------------------------------------------------------------------
(* src/control/visualize_results.py                                        *)
(*                                                                         *)
(* Python's dicts are objects: two names may hold the same dict, and a     *)
(* store through one is seen through the other.  heap is the sequence of   *)
(* the dict objects made so far, an object's identity is its index, and a  *)
(* dataset's 'fio' entry holds a reference [ref |-> id] to its fio dict.   *)
(* The metrics of a test are never stored into and are held by value.      *)
(* A dict that is iterated in insertion order is [keys, vals].             *)

MaxReports == 2

\* the characters of labels and test names, in code point order
CodePoints == " ()0123456789ABCDEFGHIJKLMNOPQRSTUVWXYZ_abcdefghijklmnopqrstuvwxyz"

ord(c) == Least({i \in 1..Len(CodePoints) : Ch(CodePoints, i) = c})

\* Python's s < t on strings
RECURSIVE StrLess(_, _)
StrLess(s, t) ==
    IF t = "" THEN FALSE
    ELSE IF s = "" THEN TRUE
    ELSE IF Ch(s, 1) # Ch(t, 1) THEN ord(Ch(s, 1)) < ord(Ch(t, 1))
    ELSE StrLess(SubSeq(s, 2, Len(s)), SubSeq(t, 2, Len(t)))

\* sorted(S) for a set of strings
RECURSIVE sorted(_)
sorted(S) ==
    IF S = {} THEN <<>>
    ELSE The({<<m>> \o sorted(S \ {m}) :
              m \in {x \in S : \A y \in S \ {x} : StrLess(x, y)}})

\* str.lower()
RECURSIVE lower(_)
lower(s) ==
    IF s = "" THEN ""
    ELSE (IF ord(Ch(s, 1)) \in 14..39
          THEN Ch(CodePoints, ord(Ch(s, 1)) + 27)
          ELSE Ch(s, 1)) \o lower(SubSeq(s, 2, Len(s)))

\* lines 23-31
get_storage_type(label) ==
    IF Contains(lower(label), "local") THEN "local"
    ELSE IF Contains(lower(label), "iscsi") THEN "iscsi"
    ELSE "default"

\* Path(json_path).parent.name, lines 522-523
ParentName(path) ==
    LET slashes == {i \in 1..Len(path) : Ch(path, i) = "/"}
        last    == Greatest(slashes)
        before  == {i \in slashes : i < last}
        from    == IF before = {} THEN 1 ELSE Greatest(before) + 1
    IN  IF slashes = {} THEN "" ELSE SubSeq(path, from, last - 1)

\* the truth value of a loaded value: None and the empty dict are false
Truthy(data) == DOMAIN data # {} /\ "none" \notin DOMAIN data

Ref(id) == [ref |-> id]

\* a new dict object
Alloc(h, d) == [heap |-> Append(h, d), id |-> Len(h) + 1]

\* the dict of label -> object, in insertion order
NoDatasets == [keys |-> <<>>, vals |-> EmptyDict]

\* datasets[label] = id: a label already there keeps its place
OrderedSet(d, key, value) ==
    [keys |-> IF key \in DOMAIN d.vals THEN d.keys ELSE Append(d.keys, key),
     vals |-> DictSet(d.vals, key, value)]

\* the value of the dataset object id: its entries, the fio dict followed
Deep(h, id) ==
    IF "fio" \in DOMAIN h[id]
    THEN [h[id] EXCEPT !["fio"] = h[h[id]["fio"].ref]]
    ELSE h[id]

DeepAll(h, d) == [label \in DOMAIN d.vals |-> Deep(h, d.vals[label])]

\* the metrics the aggregator writes for one test
Metrics(iops) ==
    [IOPS_mean |-> iops, IOPS_stdev |-> 0, Bandwidth_mean |-> 4 * iops,
     Bandwidth_stdev |-> 0, Latency_mean |-> 2, Latency_stdev |-> 0,
     samples |-> 1]

PgMeasured ==
    [TPS_mean |-> 900, TPS_stdev |-> 0, Latency_Avg_mean |-> 4,
     Latency_Avg_stdev |-> 0, Transactions_mean |-> 54000, samples |-> 1]

\* The files named aggregated_report.json on the disk: a report as the
\* aggregator writes it, with and without pgbench; a report with a test
\* that lacks a required field; one whose every test lacks one; one
\* without 'fio'; one with tests outside the standard set; one whose tests
\* have the required fields only; the empty object; a file that is not
\* JSON.  None of them has the key 'pgbench_section'.  Two of them have a
\* parent directory of the same name.
ReportDisk ==
    { [path |-> "results/local_1vms/aggregated_report.json", loads |-> TRUE,
       json |-> [fio |-> ("Random Read" :> Metrics(1000)) @@
                         ("Random Write" :> Metrics(500)),
                 pgbench |-> PgMeasured, iterations |-> <<1>>, num_vms |-> 1]],
      [path |-> "results/iscsi_2vms/aggregated_report.json", loads |-> TRUE,
       json |-> [fio |-> ("Random Read" :> Metrics(800)) @@
                         ("Sequential Read" :>
                             [IOPS_mean |-> 300, Bandwidth_mean |-> 1200]),
                 pgbench |-> EmptyDict, iterations |-> <<1, 2>>,
                 num_vms |-> 2]],
      [path |-> "results/broken/aggregated_report.json", loads |-> TRUE,
       json |-> [fio |-> ("Random Read" :> [IOPS_mean |-> 5]),
                 pgbench |-> EmptyDict, iterations |-> <<1>>, num_vms |-> 1]],
      [path |-> "results/pg_only/aggregated_report.json", loads |-> TRUE,
       json |-> [pgbench |-> PgMeasured, num_vms |-> 1]],
      [path |-> "backup/local_1vms/aggregated_report.json", loads |-> TRUE,
       json |-> [fio |-> ("Verify B" :> Metrics(70)) @@
                         ("Verify A" :> Metrics(60)) @@
                         ("Trim" :> [IOPS_mean |-> 1]),
                 pgbench |-> EmptyDict, iterations |-> <<1>>, num_vms |-> 1]],
      [path |-> "results/bare/aggregated_report.json", loads |-> TRUE,
       json |-> [fio |-> ("Random Read" :>
                             [IOPS_mean |-> 10, Bandwidth_mean |-> 40,
                              Latency_mean |-> 1])]],
      [path |-> "results/blank/aggregated_report.json", loads |-> TRUE,
       json |-> EmptyDict],
      [path |-> "results/torn/aggregated_report.json", loads |-> FALSE,
       json |-> EmptyDict] }

\* what find_aggregated_reports can return, lines 465-499
ReportListings == UNION {[1..n -> ReportDisk] : n \in 0..MaxReports}

\* lines 37-44
load_aggregated_data(file) == IF file.loads THEN file.json ELSE None

\* json.load makes the objects of a document: the fio dict, then the dict
\* that refers to it
json_objects(h, data) ==
    IF "fio" \in DOMAIN data
    THEN Alloc(Append(h, data["fio"]),
               [data EXCEPT !["fio"] = Ref(Len(h) + 1)])
    ELSE Alloc(h, data)

\* lines 517-525
RECURSIVE LoadLoop(_, _, _, _)
LoadLoop(files, k, h, ds) ==
    IF k > Len(files) THEN [heap |-> h, datasets |-> ds]
    ELSE The({IF Truthy(data)
              THEN The({LoadLoop(files, k + 1, o.heap,
                                 OrderedSet(ds, ParentName(files[k].path),
                                            o.id)) :
                        o \in {json_objects(h, data)}})
              ELSE LoadLoop(files, k + 1, h, ds) :
              data \in {load_aggregated_data(files[k])}})

\* line 138
required_fields == {"IOPS_mean", "Bandwidth_mean", "Latency_mean"}

\* lines 161-168
standard_tests ==
    <<"Sequential Write", "Sequential Read", "Random Write", "Random Read",
      "Mixed RW (Write)", "Mixed RW (Read)">>

\* valid_data = data: a second name for the same object
copy_alias(h, id) == [heap |-> h, id |-> id]

\* data.copy(), line 149: a new dict with the entries of the old one
copy(h, id) == Alloc(h, h[id])

\* lines 126-151, from the k-th dataset on
RECURSIVE ValidateLoop(_, _, _, _, _)
ValidateLoop(ds, k, h, valid, found) ==
    IF k > Len(ds.keys)
    THEN [heap |-> h, valid_datasets |-> valid, test_types_found |-> found]
    ELSE LET label == ds.keys[k]
             data  == ds.vals[label]
             fio   == h[data]["fio"].ref
         IN  IF ~Truthy(h[data]) \/ "fio" \notin DOMAIN h[data]
             THEN ValidateLoop(ds, k + 1, h, valid, found)
             ELSE The({
                  IF DOMAIN vt.heap[vt.id] = {}
                  THEN ValidateLoop(ds, k + 1, vt.heap, valid,
                                    found \cup DOMAIN h[fio])
                  ELSE The({ValidateLoop(
                               ds, k + 1,
                               [c.heap EXCEPT ![c.id] =
                                   DictSet(@, "fio", Ref(vt.id))],
                               OrderedSet(valid, label, c.id),
                               found \cup DOMAIN h[fio]) :
                            c \in {copy(vt.heap, data)}}) :
                  vt \in {Alloc(h, [t \in {u \in DOMAIN h[fio] :
                                       required_fields \subseteq
                                           DOMAIN h[fio][u]}
                                    |-> h[fio][t]])}})

\* lines 121-177
validate_data_for_visualization(h, ds) ==
    The({IF r.valid_datasets.keys = <<>>
         THEN [heap |-> r.heap, valid_datasets |-> None,
               filtered_tests |-> None]
         ELSE LET standard == SelectSeq(standard_tests,
                                LAMBDA t : t \in r.test_types_found)
                  first    == sorted(r.test_types_found)
              IN  [heap |-> r.heap, valid_datasets |-> r.valid_datasets,
                   filtered_tests |->
                       IF standard # <<>> THEN standard
                       ELSE SubSeq(first, 1,
                                   IF Len(first) < 6 THEN Len(first) ELSE 6)] :
         r \in {ValidateLoop(ds, 1, h, NoDatasets, {})}})

\* a file written into output_dir
VisFile(name, data) ==
    [dir |-> "visualization_output",
     path |-> "visualization_output/" \o name, data |-> data]

\* lines 201-246: the charts written before the first metric whose bars
\* raise KeyError (a test without its _stdev at line 212, a dataset
\* without 'num_vms' at line 227), and whether one does
fio_metrics == <<"IOPS", "Bandwidth", "Latency">>

FioChartRaises(h, ds, tests, metric) ==
    \E label \in DOMAIN ds.vals :
        LET data == Deep(h, ds.vals[label])
        IN  \/ \E i \in 1..Len(tests) :
                  /\ tests[i] \in DOMAIN data["fio"]
                  /\ (metric \o "_stdev") \notin DOMAIN data["fio"][tests[i]]
            \/ "num_vms" \notin DOMAIN data

FioCharts(h, ds, tests) ==
    LET bad == {i \in 1..3 : FioChartRaises(h, ds, tests, fio_metrics[i])}
        n   == IF bad = {} THEN 3 ELSE Least(bad) - 1
    IN  [files |-> [i \in 1..n |->
                       VisFile("fio_" \o lower(fio_metrics[i])
                                   \o "_comparison.png", tests)],
         raised |-> bad # {}]

\* lines 78-98 on data without 'pgbench_section': the pgbench figures, None
\* when there are none, "KeyError" when a figure read at lines 87, 95 is
\* absent
extract_pgbench_data(data) ==
    IF "pgbench" \notin DOMAIN data THEN None
    ELSE IF "TPS_mean" \in DOMAIN data["pgbench"]
         THEN IF "Latency_Avg_mean" \in DOMAIN data["pgbench"]
              THEN [figures |-> data["pgbench"]] ELSE [raised |-> "KeyError"]
    ELSE IF "TPS" \in DOMAIN data["pgbench"]
         THEN IF "Latency_Avg" \in DOMAIN data["pgbench"]
              THEN [figures |-> data["pgbench"]] ELSE [raised |-> "KeyError"]
    ELSE None

\* lines 349-363: the storage types with data and the VM counts of each
ScalabilityData(h, ds) ==
    [st \in {get_storage_type(label) : label \in DOMAIN ds.vals} |->
        {IF "num_vms" \in DOMAIN h[ds.vals[label]]
         THEN h[ds.vals[label]]["num_vms"] ELSE 1 :
         label \in {l \in DOMAIN ds.vals :
                      /\ get_storage_type(l) = st
                      /\ {"Random Read", "Random Write"} \subseteq
                             DOMAIN Deep(h, ds.vals[l])["fio"]}}]

InitVisualize ==
    /\ call = NoCall
    /\ results_dir = ""
    /\ listing = <<>>
    /\ pc = "vis_find"
    /\ all_result_files = <<>>
    /\ fileIdx = 0
    /\ iterations_data = <<>>
    /\ trace = <<>>
    /\ aggregated = None
    /\ argv = <<>>
    /\ argIdx = 0
    /\ written = <<>>
    /\ snapshots = <<>>
    /\ report_files \in ReportListings
    /\ heap = <<>>
    /\ datasets = NoDatasets
    /\ valid_datasets = NoDatasets
    /\ filtered_tests = <<>>
    /\ dir_exists \in BOOLEAN

aggregatorVars == <<call, results_dir, listing, all_result_files, fileIdx,
                    iterations_data, trace, aggregated, argv, argIdx,
                    snapshots>>

\* lines 513-514
VisNoReports ==
    /\ pc = "vis_find"
    /\ report_files = <<>>
    /\ pc' = "vis_exit"
    /\ UNCHANGED <<aggregatorVars, written, visVars>>

\* lines 517-529
VisLoad ==
    /\ pc = "vis_find"
    /\ report_files # <<>>
    /\ \E r \in {LoadLoop(report_files, 1, heap, NoDatasets)} :
          /\ heap' = r.heap
          /\ datasets' = r.datasets
          /\ pc' = IF r.datasets.keys = <<>> THEN "vis_exit"
                   ELSE "vis_validate"
    /\ UNCHANGED <<aggregatorVars, written, report_files, valid_datasets,
                   filtered_tests, dir_exists>>

\* lines 532-536
VisValidate ==
    /\ pc = "vis_validate"
    /\ \E r \in {validate_data_for_visualization(heap, datasets)} :
          /\ heap' = r.heap
          /\ valid_datasets' = r.valid_datasets
          /\ filtered_tests' = r.filtered_tests
          /\ pc' = IF \/ r.valid_datasets = None
                      \/ r.valid_datasets.keys = <<>>
                      \/ r.filtered_tests = <<>>
                   THEN "vis_exit" ELSE "vis_debug"
    /\ UNCHANGED <<aggregatorVars, written, report_files, datasets,
                   dir_exists>>

\* line 539: debug_dataset_structure, lines 429-463.  open() of line 432
\* raises FileNotFoundError when the directory of the file does not exist,
\* and nothing in main catches it
VisDebug ==
    /\ pc = "vis_debug"
    /\ IF dir_exists
       THEN /\ written' = Append(written,
                              VisFile("data_structure_debug.txt",
                                      DeepAll(heap, valid_datasets)))
            /\ pc' = "vis_makedirs"
       ELSE /\ written' = written
            /\ pc' = "FileNotFoundError"
    /\ UNCHANGED <<aggregatorVars, visVars>>

\* lines 542-543: os.makedirs(output_dir, exist_ok=True)
VisMakedirs ==
    /\ pc = "vis_makedirs"
    /\ dir_exists' = TRUE
    /\ pc' = "vis_plot_fio"
    /\ UNCHANGED <<aggregatorVars, written, report_files, heap, datasets,
                   valid_datasets, filtered_tests>>

\* line 547: plot_fio_comparison, lines 179-248
VisPlotFio ==
    /\ pc = "vis_plot_fio"
    /\ \E r \in {FioCharts(heap, valid_datasets, filtered_tests)} :
          /\ written' = written \o r.files
          /\ pc' = IF r.raised THEN "KeyError" ELSE "vis_plot_pgbench"
    /\ UNCHANGED <<aggregatorVars, visVars>>

\* line 548: plot_pgbench_comparison, lines 250-342
VisPlotPgbench ==
    /\ pc = "vis_plot_pgbench"
    /\ \E found \in {[label \in DOMAIN valid_datasets.vals |->
                         extract_pgbench_data(
                             Deep(heap, valid_datasets.vals[label]))]} :
          IF \E label \in DOMAIN found : "raised" \in DOMAIN found[label]
          THEN written' = written /\ pc' = "KeyError"
          ELSE /\ pc' = "vis_plot_scalability"
               /\ written' = Append(written,
                      IF \A label \in DOMAIN found : found[label] = None
                      THEN VisFile("pgbench_comparison_missing_data.txt",
                                   DeepAll(heap, valid_datasets))
                      ELSE VisFile("pgbench_comparison.png",
                                   {label \in DOMAIN found :
                                       found[label] # None}))
    /\ UNCHANGED <<aggregatorVars, visVars>>

\* line 549: plot_scalability_analysis, lines 344-427
VisPlotScalability ==
    /\ pc = "vis_plot_scalability"
    /\ \E scalability_data \in {ScalabilityData(heap, valid_datasets)} :
          written' =
              IF \/ Cardinality(DOMAIN scalability_data) < 2
                 \/ \E st \in DOMAIN scalability_data :
                        Cardinality(scalability_data[st]) < 2
              THEN written
              ELSE Append(written, VisFile("scalability_analysis.png",
                                           DOMAIN scalability_data))
    /\ pc' = "vis_listing"
    /\ UNCHANGED <<aggregatorVars, visVars>>

\* lines 551-556
VisListing ==
    /\ pc = "vis_listing"
    /\ pc' = "vis_done"
    /\ UNCHANGED <<aggregatorVars, written, visVars>>

NextVisualize ==
    \/ VisNoReports
    \/ VisLoad
    \/ VisValidate
    \/ VisDebug
    \/ VisMakedirs
    \/ VisPlotFio
    \/ VisPlotPgbench
    \/ VisPlotScalability
    \/ VisListing

SpecVisualize == InitVisualize /\ [][NextVisualize]_vars

\* the aggregator's main and the visualizer's main, each run on its own
InitConsumers == InitMain \/ InitVisualize

NextConsumers == NextMain \/ NextVisualize

SpecConsumers == InitConsumers /\ [][NextConsumers]_vars

---------------------------------------------------------------------------
(* Claims about validate_fio_data, under SpecValidate *)

\* C1: every call whose rate (IOPS) is greater than 100000 returns False,
\* whatever the label, the throughput and the latency.
C1_RejectsHighRate ==
    (Returned /\ call.iops > 100000) => call.result = "False"

\* C1's case: a rate above the mark on a row that no other rule rejects
\* (zero throughput skips the ratio rule, zero latency passes every ceiling)
C1_Witness ==
    /\ call.result = "False"
    /\ call.iops = 100001
    /\ call.bandwidth = 0
    /\ call.latency = 0
    /\ call.test_name = "Random Read"

InClaimedBand(test_name, iops, bandwidth) ==
    /\ (IF Contains(test_name, "Write") THEN 5 ELSE 8) * (iops * 4)
          <= bandwidth * 10
    /\ bandwidth * 10 <= 12 * (iops * 4)

\* C3: a call returns True only if its throughput lies within
\* [0.8, 1.2] x (rate x 4), the floor being 0.5 x for a label that contains
\* "Write"; a rate or a throughput of 0 is no exception.
C3_AcceptsOnlyInBand ==
    (Returned /\ call.result = "True")
        => InClaimedBand(call.test_name, call.iops, call.bandwidth)

\* the ceilings of C4: "Mixed RW" by its marker, the other classes by the
\* label that names them, 300 for any other label
ClaimedCeiling(test_name) ==
    IF Contains(test_name, "Mixed RW") THEN 200
    ELSE IF test_name \in DOMAIN max_allowed_latency
         THEN max_allowed_latency[test_name]
         ELSE 300

\* C4: a call whose latency exceeds the ceiling of its test class (Sequential
\* Read 50, Sequential Write 100, Random Read 100, Random Write 200,
\* Mixed RW 200, otherwise 300) returns False.
C4_RejectsAboveClassCeiling ==
    ( /\ Returned
      /\ ~NoWords(call.test_name)
      /\ call.latency > ClaimedCeiling(call.test_name) )
    => call.result = "False"


---------------------------------------------------------------------------
(* Claims about parse_results_sheet and aggregate_results, under Spec *)

\* the files the loop has handed to parse_results_sheet: trace[k] is the
\* visit of all_result_files[k]
Parsed == {k \in 1..Len(trace) : trace[k].parsed}

\* the files whose parse returned results
Succeeded == {k \in Parsed : trace[k].result # None}

\* aggregate_results has returned a snapshot
Done == pc = "returned" /\ aggregated # None

\* the rows the validator accepted, in order
AcceptedRows(rows) == SelectSeq(rows, LAMBDA r : r.verdict = "True")

\* the dict that storing the given rows in order leaves
RECURSIVE Stored(_)
Stored(rows) ==
    IF Len(rows) = 0 THEN EmptyDict
    ELSE DictSet(Stored(SubSeq(rows, 1, Len(rows) - 1)),
                 rows[Len(rows)].key, rows[Len(rows)].metrics)

\* C5: every row the pattern matches gets exactly one verdict, accept or
\* reject, from the validator; what a transcript stores is what its accepted
\* rows alone would store, and the snapshot counts for every key exactly the
\* transcripts whose accepted rows hold the key.
C5_EveryRowJudgedRejectedDropped ==
    /\ \A k \in Parsed :
          /\ Len(trace[k].rows) = trace[k].matched
          /\ \A j \in 1..Len(trace[k].rows) :
                trace[k].rows[j].verdict \in {"True", "False"}
          /\ trace[k].result # None
                => trace[k].result.fio = Stored(AcceptedRows(trace[k].rows))
    /\ Done =>
          \A K \in DOMAIN aggregated.fio :
             aggregated.fio[K].samples =
                Cardinality({k \in Parsed :
                               K \in DOMAIN Stored(AcceptedRows(trace[k].rows))})

\* two rows that report the same test: the same sequence number and label
SameTest(a, b) == a.test_num = b.test_num /\ a.test_name = b.test_name

\* the direction a label names, "none" when it names no single one
Direction(test_name) ==
    LET rd == Contains(test_name, "Read") \/ Contains(test_name, ReadMarkerRu)
        wr == Contains(test_name, "Write") \/ Contains(test_name, WriteMarkerRu)
    IN  IF rd /\ ~wr THEN "read" ELSE IF wr /\ ~rd THEN "write" ELSE "none"

\* C6: in one transcript two accepted rows are stored under the same key
\* only if they report the same test, and two accepted rows with the same
\* sequence number and different directions are stored under different keys.
C6_KeysInjective ==
    \A k \in Parsed :
       \A i, j \in 1..Len(trace[k].rows) :
          LET a == trace[k].rows[i]
              b == trace[k].rows[j]
          IN  (i < j /\ a.verdict = "True" /\ b.verdict = "True") =>
                 /\ a.key = b.key => SameTest(a, b)
                 /\ ( /\ a.test_num = b.test_num
                      /\ Direction(a.test_name) # "none"
                      /\ Direction(b.test_name) # "none"
                      /\ Direction(a.test_name) # Direction(b.test_name) )
                    => a.key # b.key

\* the first characters of the lines of a text
LineStarts(s) == {i \in 1..Len(s) : i = 1 \/ Ch(s, i - 1) = "\n"}

\* the labels of the continuation rows of a text: the lines that open with
\* blanks and go on with a label that does not open with a digit, and three
\* numbers
ContinuationLabels(s) ==
    {strip(SubSeq(s, RunEnd(s, i, "space"),
                  FioLabelEnd(s, RunEnd(s, i, "space")) - 1)) :
       i \in {x \in LineStarts(s) :
                /\ IsSpace(Ch(s, x))
                /\ RunEnd(s, x, "space") <= RunEnd(s, x, "line")
                /\ RunEnd(s, x, "space") <= Len(s)
                /\ ~IsDigit(Ch(s, RunEnd(s, x, "space")))
                /\ FioLabelEnd(s, RunEnd(s, x, "space")) # 0}}

\* C7: of two accepted "Mixed RW" rows with one sequence number in one
\* transcript, a row whose label names a direction is keyed by it and a row
\* whose label names none is keyed by its place, the first as the read side
\* and the second as the write side; and every continuation row of the
\* transcript is extracted.
C7_MixedSplitByDirection ==
    \A k \in Parsed :
       /\ \A i, j \in 1..Len(trace[k].rows) :
             LET a == trace[k].rows[i]
                 b == trace[k].rows[j]
             IN  ( /\ i < j
                   /\ a.verdict = "True" /\ b.verdict = "True"
                   /\ a.test_num = b.test_num
                   /\ Contains(a.test_name, "Mixed RW")
                   /\ Contains(b.test_name, "Mixed RW") ) =>
                    /\ Direction(a.test_name) = "read" => a.key = "Mixed RW (Read)"
                    /\ Direction(a.test_name) = "write" => a.key = "Mixed RW (Write)"
                    /\ Direction(b.test_name) = "read" => b.key = "Mixed RW (Read)"
                    /\ Direction(b.test_name) = "write" => b.key = "Mixed RW (Write)"
                    /\ Direction(a.test_name) = "none" => a.key = "Mixed RW (Read)"
                    /\ Direction(b.test_name) = "none" => b.key = "Mixed RW (Write)"
       /\ \A label \in ContinuationLabels(all_result_files[k].content) :
             \E j \in 1..Len(trace[k].rows) : trace[k].rows[j].test_name = label

\* the header of the disk-benchmark section, written as line 100 writes the
\* header of the pgbench section
FioSectionMarker == "Rezultaty fio"

\* position i of the text lies in the disk-benchmark section: after the
\* header of the section and before the next "===" header, or the end
InFioSection(s, i) ==
    LET f    == Least({x \in 1..Len(s) : OccursAt(s, FioSectionMarker, x)})
        body == RunEnd(s, f + Len(FioSectionMarker), "eq")
        next == Least({x \in body..(Len(s) + 1) :
                         x = Len(s) + 1 \/ OccursAt(s, "===", x)})
    IN  body <= i /\ i < next

\* C8: from a transcript that holds the header of the disk-benchmark
\* section, rows are extracted only from inside that section.
C8_RowsOnlyFromSection ==
    \A k \in Parsed :
       Contains(all_result_files[k].content, FioSectionMarker) =>
          \A j \in 1..Len(trace[k].rows) :
             InFioSection(all_result_files[k].content, trace[k].rows[j].start)

\* the transcripts whose results hold key K
Reporting(K) == {k \in Succeeded : K \in DOMAIN trace[k].result.fio}

\* the sum of one metric of key K over a set of transcripts that hold K
RECURSIVE ReportedSum(_, _, _)
ReportedSum(S, K, metric) ==
    IF S = {} THEN 0
    ELSE LET k == CHOOSE x \in S : TRUE
         IN  trace[k].result.fio[K][metric] + ReportedSum(S \ {k}, K, metric)

\* C9: in a returned snapshot the keys are the keys of the successfully
\* parsed transcripts, and for every key K samples is the number of those
\* transcripts whose results hold K and each mean is the sum of their values
\* over that number: a transcript without K adds nothing.
C9_SamplesAndMeansOverReporting ==
    Done =>
       /\ DOMAIN aggregated.fio =
             UNION {DOMAIN trace[k].result.fio : k \in Succeeded}
       /\ \A K \in DOMAIN aggregated.fio :
             LET n == Cardinality(Reporting(K))
             IN  /\ aggregated.fio[K].samples = n
                 /\ aggregated.fio[K].IOPS_mean =
                       Frac(ReportedSum(Reporting(K), K, "IOPS"), n)
                 /\ aggregated.fio[K].Bandwidth_mean =
                       Frac(ReportedSum(Reporting(K), K, "Bandwidth"), n)
                 /\ aggregated.fio[K].Latency_mean =
                       Frac(ReportedSum(Reporting(K), K, "Latency"), n)

\* C9's case: two transcripts report Random Read with rates 5000 and 5200,
\* and one of them alone reports Sequential Read; the snapshot holds mean
\* 5100 over 2 samples for the first, and 1 sample, no zero, for the second
C9_Witness ==
    /\ Done
    /\ Cardinality(Succeeded) = 2
    /\ Cardinality(Reporting("Random Read")) = 2
    /\ Cardinality(Reporting("Sequential Read")) = 1
    /\ \E k \in Succeeded : trace[k].result.fio["Random Read"].IOPS = 5000
    /\ \E k \in Succeeded : trace[k].result.fio["Random Read"].IOPS = 5200
    /\ aggregated.fio["Random Read"].samples = 2
    /\ aggregated.fio["Random Read"].IOPS_mean = Frac(5100, 1)
    /\ aggregated.fio["Random Read"].IOPS_stdev # Zero
    /\ aggregated.fio["Sequential Read"].samples = 1
    /\ aggregated.fio["Sequential Read"].IOPS_mean = Frac(1000, 1)

\* C10: every key of a returned snapshot has samples >= 1, and with
\* samples = 1 its three standard deviations are exactly 0; the pgbench
\* block, when the snapshot has one, has samples >= 1, and with samples = 1
\* its two standard deviations are exactly 0.
C10_OneSampleNoDeviation ==
    Done =>
       /\ \A K \in DOMAIN aggregated.fio :
             /\ aggregated.fio[K].samples >= 1
             /\ aggregated.fio[K].samples = 1 =>
                   /\ aggregated.fio[K].IOPS_stdev = Zero
                   /\ aggregated.fio[K].Bandwidth_stdev = Zero
                   /\ aggregated.fio[K].Latency_stdev = Zero
       /\ DOMAIN aggregated.pgbench # {} =>
             /\ aggregated.pgbench.samples >= 1
             /\ aggregated.pgbench.samples = 1 =>
                   /\ aggregated.pgbench.TPS_stdev = Zero
                   /\ aggregated.pgbench.Latency_Avg_stdev = Zero

\* C10's case: a snapshot of one transcript that holds a disk row and a
\* pgbench block: one sample each, every deviation 0
C10_Witness ==
    /\ Done
    /\ Cardinality(Succeeded) = 1
    /\ DOMAIN aggregated.fio = {"Random Read"}
    /\ DOMAIN aggregated.pgbench # {}
    /\ aggregated.fio["Random Read"].samples = 1
    /\ aggregated.fio["Random Read"].IOPS_stdev = Zero
    /\ aggregated.fio["Random Read"].Bandwidth_stdev = Zero
    /\ aggregated.fio["Random Read"].Latency_stdev = Zero
    /\ aggregated.pgbench.samples = 1
    /\ aggregated.pgbench.TPS_stdev = Zero
    /\ aggregated.pgbench.Latency_Avg_stdev = Zero

\* the orders in which n files can be visited
VisitOrders(n) ==
    {p \in [1..n -> 1..n] : \A i, j \in 1..n : i # j => p[i] # p[j]}

\* C11: when aggregate_results has returned, visiting the same files in any
\* other order returns the same value: the same keys, samples, means and
\* deviations, the same iterations list and the same pgbench block.
C11_OrderIndependent ==
    pc = "returned" =>
       \A p \in VisitOrders(Len(trace)) :
          ReturnOf(results_dir, [k \in 1..Len(trace) |-> trace[p[k]]])
             = aggregated

\* C11's case: two transcripts of one iteration, one with a key the other
\* lacks and a pgbench block, aggregated into one snapshot
C11_Witness ==
    /\ Done
    /\ Len(trace) = 2
    /\ Cardinality(Succeeded) = 2
    /\ trace[1].result # trace[2].result
    /\ Len(aggregated.iterations) = 1
    /\ Cardinality(DOMAIN aggregated.fio) >= 2
    /\ DOMAIN aggregated.pgbench # {}

\* the transcripts whose results hold a pgbench measurement
WithPgbench == {k \in Succeeded : DOMAIN trace[k].result.pgbench # {}}

\* C12: the pgbench block of a returned snapshot is populated exactly when
\* some parsed transcript produced a pgbench measurement, and its samples is
\* then the number of those transcripts; otherwise the block is empty.
C12_PgbenchOnlyWhenMeasured ==
    Done =>
       /\ DOMAIN aggregated.pgbench # {} <=> WithPgbench # {}
       /\ DOMAIN aggregated.pgbench # {} =>
             aggregated.pgbench.samples = Cardinality(WithPgbench)
       /\ WithPgbench = {} => aggregated.pgbench = EmptyDict

\* C12's case: of two parsed transcripts one holds a pgbench measurement;
\* the block is populated with one sample
C12_Witness ==
    /\ Done
    /\ Cardinality(Succeeded) = 2
    /\ Cardinality(WithPgbench) = 1
    /\ DOMAIN aggregated.pgbench # {}
    /\ aggregated.pgbench.samples = 1
    /\ aggregated.pgbench.TPS_mean = Frac(180, 1)

\* the subject a transcript's file name names, vm<N>: N, or -1 for none
SubjectOf(name) ==
    The({IF I = {} THEN -1
         ELSE The({int(SubSeq(name, a, RunEnd(name, a, "digit") - 1)) :
                      a \in {Least(I) + Len("vm")}}) :
         I \in {{i \in 1..Len(name) :
                   /\ OccursAt(name, "vm", i)
                   /\ RunEnd(name, i + Len("vm"), "digit") > i + Len("vm")}}})

\* C13: num_vms of a returned snapshot is the number of distinct subjects
\* whose transcripts were aggregated when every such transcript names its
\* subject, and the number declared in the directory name only otherwise.
C13_SubjectsCounted ==
    Done =>
       aggregated.num_vms =
          IF \A k \in Succeeded : SubjectOf(trace[k].name) # -1
          THEN Cardinality({SubjectOf(trace[k].name) : k \in Succeeded})
          ELSE vms_match(results_dir)

\* the files whose read or parse failed
Failed == {k \in Parsed : trace[k].result = None}

\* C17: a file whose read or parse fails is skipped and the loop goes on to
\* every remaining file; what aggregate_results returns is what it returns
\* for the same files without the failed ones.
C17_FailedFileSkipped ==
    pc = "returned" =>
       /\ Len(trace) = Len(all_result_files)
       /\ aggregated =
             ReturnOf(results_dir,
                      SelectSeq(trace, LAMBDA t : ~(t.parsed /\ t.result = None)))

\* C17's case: the first file visited fails, the second parses, and the
\* snapshot holds the second file's iteration and rows alone
C17_Witness ==
    /\ Done
    /\ Len(trace) = 2
    /\ Failed = {1}
    /\ Succeeded = {2}
    /\ iter_match(trace[1].name) # iter_match(trace[2].name)
    /\ aggregated.iterations = <<iter_match(trace[2].name)>>
    /\ DOMAIN aggregated.fio = DOMAIN trace[2].result.fio
    /\ DOMAIN aggregated.fio # {}

---------------------------------------------------------------------------
(* Claims about main of aggregate_results.py, under SpecMain *)

\* the files of a directory that the glob of line 120 matches
Matching(dir) == SelectSeq(DirListing(dir), LAMBDA f : GlobMatches(f.name))

\* main holds the result of aggregate_results for results_dir
Called == pc \in {"main_loop", "main_debug", "main_report", "main_json",
                  "main_exit"} /\ results_dir # ""

\* the files main has written for a directory
WrittenFor(dir) == {k \in 1..Len(written) : written[k].dir = dir}

\* no file of the directory both matches the glob with an iteration number
\* in its name and parses
NoneParseable(dir) ==
    \A k \in 1..Len(Matching(dir)) :
       \/ iter_match(Matching(dir)[k].name) = -1
       \/ parse_results_sheet(Matching(dir)[k]) = None

\* C14: for a directory with no file that matches the naming convention, and
\* for one in which no matching file both carries an iteration number and
\* parses, aggregate_results returns None and main writes no file.
C14_NoSnapshotWithoutTranscripts ==
    (Called /\ NoneParseable(results_dir)) =>
       /\ aggregated = None
       /\ WrittenFor(results_dir) = {}

\* C14's case: main has gone through a directory without a matching file
\* and a directory whose matching files do not parse, and has written
\* nothing
C14_Witness ==
    /\ pc = "main_exit"
    /\ argv = <<"results/notes", "results/run7">>
    /\ aggregated = None
    /\ written = <<>>

\* every matching file of the directory is readable and parses, and none
\* holds an accepted row
NoMeasurement(dir) ==
    /\ Len(Matching(dir)) > 0
    /\ \A k \in 1..Len(Matching(dir)) :
          /\ Matching(dir)[k].readable
          /\ iter_match(Matching(dir)[k].name) # -1
          /\ parse_results_sheet(Matching(dir)[k]) # None
          /\ DOMAIN parse_results_sheet(Matching(dir)[k]).fio = {}

\* C15: for a directory whose transcripts are readable and hold no accepted
\* row, aggregate_results returns None and main writes no file.
C15_NoSnapshotWithoutMeasurement ==
    (Called /\ NoMeasurement(results_dir)) =>
       /\ aggregated = None
       /\ WrittenFor(results_dir) = {}

\* aggregate_results returns a snapshot for the directory
Aggregates(dir) == DirExists(dir) /\ snapshots[dir] # None

\* main has left its loop with the report and the JSON of every directory
\* of the command line that aggregates
AllWritten ==
    /\ pc = "main_exit"
    /\ \A i \in 1..Len(argv) :
          Aggregates(argv[i]) =>
             /\ \E k \in WrittenFor(argv[i]) :
                   written[k].path = argv[i] \o "/aggregated_report.txt"
             /\ \E k \in WrittenFor(argv[i]) :
                   /\ written[k].path = argv[i] \o "/aggregated_report.json"
                   /\ written[k].data = snapshots[argv[i]]

\* C16: no failure of a directory stops main: every run goes through all the
\* directories of the command line, and every directory that aggregates gets
\* its report and its JSON, whatever failed before it.
C16_FailureNeverStopsRun == <>AllWritten

\* C16's case: the first directory fails, the second aggregates and its
\* report and JSON are written
C16_Witness ==
    /\ AllWritten
    /\ Len(argv) = 2
    /\ ~Aggregates(argv[1])
    /\ argv[2] = "results/20251218_1619_local_2vms_2iter"
    /\ Aggregates(argv[2])
    /\ Len(written) = 3

---------------------------------------------------------------------------
(* Claims about the consumers of the snapshot, under SpecConsumers *)

MainPositions ==
    {"main_loop", "main_debug", "main_report", "main_json", "main_exit"}

\* the document the dataset of a label was loaded from: the last report of
\* that label whose value is true, lines 518-524
LoadedAs(label) ==
    report_files[Greatest({i \in 1..Len(report_files) :
        /\ ParentName(report_files[i].path) = label
        /\ Truthy(load_aggregated_data(report_files[i]))})].json

LoadedLabels ==
    {ParentName(report_files[i].path) :
        i \in {j \in 1..Len(report_files) :
                 Truthy(load_aggregated_data(report_files[j]))}}

\* C18: the consumers of a snapshot leave it as it was.  In the
\* aggregator, while and after debug_data_structure, generate_report and
\* save_json run, the dict is the value aggregate_results returned, and so
\* is what each file was written from.  In the visualizer, from the load
\* on and through validate_data_for_visualization, the datasets are the
\* labels that were loaded and each dataset, its fio mapping followed, is
\* the document it was loaded from.
C18_ConsumersLeaveSnapshotUnchanged ==
    /\ (pc \in MainPositions /\ results_dir # "") =>
          /\ aggregated = snapshots[results_dir]
          /\ \A i \in 1..Len(written) :
                written[i].data = snapshots[written[i].dir]
    /\ (pc \notin MainPositions /\ pc # "vis_find") =>
          /\ DOMAIN datasets.vals = LoadedLabels
          /\ \A label \in DOMAIN datasets.vals :
                Deep(heap, datasets.vals[label]) = LoadedAs(label)

\* the validation has dropped a whole dataset and a test of another
C18_Witness ==
    /\ pc = "vis_debug"
    /\ DOMAIN datasets.vals # DOMAIN valid_datasets.vals
    /\ \E label \in DOMAIN valid_datasets.vals :
          DOMAIN Deep(heap, valid_datasets.vals[label])["fio"] #
              DOMAIN Deep(heap, datasets.vals[label])["fio"]

---------------------------------------------------------------------------
(* Claims about main of visualize_results.py, under SpecVisualize *)

\* C19: the run never ends in the FileNotFoundError of a write into a
\* directory that does not exist, and a file has been written only once
\* the step that creates the directory (line 543) is behind
C19_DirectoryCreatedBeforeFirstWrite ==
    /\ pc # "FileNotFoundError"
    /\ written # <<>> => pc \notin {"vis_debug", "vis_makedirs"}

====
